---- MODULE Spec2Model ----
(***************************************************************************)
(* Model of 90d-Engagment.py: a sequential batch job that reads subject    *)
(* records from Airtable, resolves each record's YouTube channel to its    *)
(* uploads playlist, collects the videos published since CUTOFF_DATE,      *)
(* fetches their statistics in batches, averages the long-form ones and    *)
(* writes three fields back to the record.                                 *)
(*                                                                         *)
(* Every HTTP request of the program is one step of the model.  The        *)
(* response to a request is an input of the step, drawn from the sets the  *)
(* variable env holds.  An action covers the request, the handling of its  *)
(* response and the straight-line code of main() up to the next request.   *)
(***************************************************************************)
EXTENDS Integers, Sequences, FiniteSets, TLC

VARIABLES
  env,            \* what the external services can answer during this run
  configOk,       \* all([AIRTABLE_API_KEY, AIRTABLE_BASE_ID, YOUTUBE_API_KEY])
  pc,             \* position of main()
  records,        \* get_airtable_records: records accumulated / returned
  idx,            \* position of the for loop of main() in records
  error_count,    \* the module-level error counter
  updated_count,  \* main(): updated_count
  video_ids,      \* get_recent_video_ids: video_ids, then main(): video_ids
  stats_data,     \* get_video_stats_batch: stats_data
  i,              \* get_video_stats_batch: start index of the next batch
  fields,         \* the fields_to_update of the pending update call
  store,          \* Airtable: the output fields held by each record
  hist,           \* the calls issued for the current record, with responses
  fetchSeen,      \* the responses to the record-store page requests
  ytFailures,     \* number of failed requests to the YouTube endpoints
  updateCalls,    \* number of PATCH requests issued
  lastUpdate      \* outcome of the PATCH request of the last finished record

vars == <<env, configOk, pc, records, idx, error_count, updated_count,
          video_ids, stats_data, i, fields, store, hist, fetchSeen,
          ytFailures, updateCalls, lastUpdate>>

-----------------------------------------------------------------------------
(* Program constants *)

ERROR_LIMIT == 10

BATCH_SIZE == 50

LONGFORM_SECONDS == 180

NINETY_DAYS == 7776000

(* Bounds of the model *)

\* datetime.utcnow() at import, in seconds
Now == 7776100

\* number of records in the view of the world with many channels
ManyRecords == 6

\* the record store of the paged world answers at most this many pages
MaxRecordPages == 2

\* a playlist has at most this many pages
MaxPages == 3

CUTOFF_DATE == Now - NINETY_DAYS

-----------------------------------------------------------------------------
(* Values *)

\* an optional key of a JSON object: <<>> when the key is missing, <<v>> when
\* it holds v
Absent == <<>>

Some(v) == <<v>>

Has(x) == x # <<>>

Val(x) == x[1]

Rep(x, n) == [k \in 1..n |-> x]

RECURSIVE Sum(_)
Sum(s) ==
  IF s = <<>> THEN 0
  ELSE IF Len(s) = 1 THEN s[1]
  ELSE Sum(SubSeq(s, 1, Len(s) \div 2)) + Sum(SubSeq(s, Len(s) \div 2 + 1, Len(s)))

RECURSIVE Flatten(_)
Flatten(ss) ==
  IF ss = <<>> THEN <<>>
  ELSE IF Len(ss) = 1 THEN ss[1]
  ELSE Flatten(SubSeq(ss, 1, Len(ss) \div 2))
         \o Flatten(SubSeq(ss, Len(ss) \div 2 + 1, Len(ss)))

Min2(a, b) == IF a < b THEN a ELSE b

\* the three fields every update call of main() carries
FieldNames == {"LGVPV90", "LGLPV90", "LGCPV90"}

Fields(v, l, c) == [LGVPV90 |-> v, LGLPV90 |-> l, LGCPV90 |-> c]

ZeroFields == Fields(0, 0, 0)

EmptyHist == [resolve |-> "none", pages |-> <<>>, batches |-> <<>>]

-----------------------------------------------------------------------------
(* What the services can answer *)

\* a record of the view: its 'YouTube Channel ID' field is a channel id, the
\* empty string, or missing
Rec(n, ch) == [id |-> n, channel |-> ch]

\* playlist items: contentDetails.videoPublishedAt, which the platform leaves
\* out for some items; contentDetails.videoId is the item's position in the
\* playlist (see VideoId)
NewItem == [videoPublishedAt |-> Some(CUTOFF_DATE + 1)]

AtItem == [videoPublishedAt |-> Some(CUTOFF_DATE)]

OldItem == [videoPublishedAt |-> Some(CUTOFF_DATE - 1)]

NoDateItem == [videoPublishedAt |-> Absent]

\* ISO 8601 durations PT<H>H<M>M<S>S
Iso(h, m, s) == [H |-> h, M |-> m, S |-> s]

Stat(v, l, c) == [viewCount |-> v, likeCount |-> l, commentCount |-> c]

\* video details: contentDetails.duration and statistics
DetailA == [duration |-> Some(Iso(0, 3, 0)), statistics |-> Some(Stat(Some(100), Some(10), Some(2)))]

DetailB == [duration |-> Some(Iso(0, 10, 0)), statistics |-> Some(Stat(Some(3), Some(1), Some(1)))]

DetailShort == [duration |-> Some(Iso(0, 2, 59)), statistics |-> Some(Stat(Some(7), Some(5), Some(3)))]

DetailNoDuration == [duration |-> Absent, statistics |-> Some(Stat(Some(8), Some(8), Some(8)))]

DetailNoStats == [duration |-> Some(Iso(1, 0, 0)), statistics |-> Absent]

DetailNoLikes == [duration |-> Some(Iso(0, 3, 1)), statistics |-> Some(Stat(Some(9), Absent, Absent))]

\* the answer of the videos endpoint to a batch: the k-th identifier gets the
\* detail cycle[k], cyclically; the empty cycle answers no item at all
StatsAnswer(cycle, batch) ==
  IF cycle = <<>> THEN <<>>
  ELSE [k \in 1..Len(batch) |->
          [id |-> batch[k],
           duration |-> cycle[((k - 1) % Len(cycle)) + 1].duration,
           statistics |-> cycle[((k - 1) % Len(cycle)) + 1].statistics]]

\* a view of ManyRecords channels, each with a short playlist
ManyWorld ==
  [name |-> "many",
   recShapes |-> {Rep(Some("UC"), ManyRecords)},
   maxRecPages |-> 1,
   pages |-> {<<NewItem>>},
   cycles |-> {<<DetailA>>}]

\* a view served in several pages, with records that lack a channel id
PagedWorld ==
  [name |-> "paged",
   recShapes |-> {<<>>, <<Some("UC")>>, <<Some(""), Some("UC")>>, <<Absent>>},
   maxRecPages |-> MaxRecordPages,
   pages |-> {<<AtItem>>, <<OldItem>>},
   cycles |-> {<<DetailA>>, <<DetailShort>>}]

\* one channel with a long playlist
DeepWorld ==
  [name |-> "deep",
   recShapes |-> {<<Some("UC")>>},
   maxRecPages |-> 1,
   pages |-> {<<>>, Rep(NewItem, 5), <<OldItem, NoDateItem, OldItem>>,
              Rep(NewItem, 10), Rep(NewItem, 50),
              <<AtItem, OldItem, NoDateItem>>},
   cycles |-> {<<>>, <<DetailA>>,
               <<DetailA, DetailShort, DetailB, DetailNoDuration,
                 DetailNoStats, DetailNoLikes>>}]

Worlds == {ManyWorld, PagedWorld, DeepWorld}

FailedResponse == [ok |-> FALSE, items |-> <<>>, next |-> FALSE]

\* answers of a paginated endpoint to the request for page number n
PageResponses(shapes, n, max) ==
  {FailedResponse} \cup
  {[ok |-> TRUE, items |-> s, next |-> t] :
     s \in shapes, t \in (IF n < max THEN BOOLEAN ELSE {FALSE})}

-----------------------------------------------------------------------------
(* The functions of the program *)

\* mutant: a failed request is followed by another request
MorePagesRetry(resp) == IF resp.ok THEN resp.next ELSE TRUE

\* get_airtable_records: the while loop goes on to another request: the
\* response was read and carries an offset
MorePages(resp) == IF resp.ok THEN resp.next ELSE FALSE

\* mutant: the driver lists the playlist whatever the resolution returned
NoPlaylistNever(r) == FALSE

\* mutant: only a channel that is not found counts as without playlist
NoPlaylistOnlyNotFound(r) == r = "not_found"

\* main(): `if not playlist_id`; get_uploads_playlist_id returns None both
\* for a channel that is not found and for a failed request
NoPlaylist(r) == r # "found"

\* mutant: an empty channel id is taken for an id
NoChannelIdMissingOnly(record) == ~Has(record.channel)

\* main(): `if not channel_id`, with channel_id = record['fields'].get(...)
NoChannelId(record) ==
  IF Has(record.channel) THEN Val(record.channel) = "" ELSE TRUE

\* mutant: the budget is never tested
BudgetExhaustedNever == FALSE

\* mutant: the test lets the counter pass the limit
BudgetExhaustedLate == error_count > ERROR_LIMIT

\* main(): the error-budget test at the head of the for loop
BudgetExhausted == error_count >= ERROR_LIMIT

\* mutant: the cutoff instant itself is excluded
IsRecentStrict(published_at) == published_at > CUTOFF_DATE

\* get_recent_video_ids: `published_at >= CUTOFF_DATE`
IsRecent(published_at) == published_at >= CUTOFF_DATE

\* get_recent_video_ids: the try of the for loop appends the item's videoId;
\* the KeyError of a missing videoPublishedAt skips the item
Collects(item) ==
  /\ Has(item.videoPublishedAt)
  /\ IsRecent(Val(item.videoPublishedAt))

\* the identifier of the k-th item of page n of the playlist
VideoId(n, k) == <<n, k>>

\* get_recent_video_ids: the identifiers the for loop appends for page n
\* (the items lo..hi of the page, the range split in halves)
RECURSIVE PageIdsIn(_, _, _, _)
PageIdsIn(items, n, lo, hi) ==
  IF lo > hi THEN <<>>
  ELSE IF lo = hi
       THEN (IF Collects(items[lo]) THEN <<VideoId(n, lo)>> ELSE <<>>)
       ELSE PageIdsIn(items, n, lo, (lo + hi) \div 2)
              \o PageIdsIn(items, n, (lo + hi) \div 2 + 1, hi)

PageIds(items, n) == PageIdsIn(items, n, 1, Len(items))

\* get_recent_video_ids: recent_videos_found_in_page after the for loop
RecentFoundInPage(items) == \E k \in 1..Len(items) : Collects(items[k])

\* mutant: the early stop is missing
EarlyStopNever(items) == FALSE

\* mutant: the early stop does not look at data.get('items')
EarlyStopOnEmpty(items) == ~RecentFoundInPage(items)

\* get_recent_video_ids: `if not recent_videos_found_in_page and
\* data.get('items'): break`
EarlyStop(items) == ~RecentFoundInPage(items) /\ items # <<>>

\* mutant: the except clause does not break
ContinuePagingAfterFailure(resp) ==
  IF ~resp.ok THEN TRUE
  ELSE IF EarlyStop(resp.items) THEN FALSE
  ELSE resp.next

\* get_recent_video_ids: the while loop goes on to another request: none of
\* its three breaks is taken
ContinuePaging(resp) ==
  IF ~resp.ok THEN FALSE
  ELSE IF EarlyStop(resp.items) THEN FALSE
  ELSE resp.next

\* mutant: the test for an empty result is missing
NoRecentVideosIgnored(ids) == FALSE

\* main(): `if not video_ids`
NoRecentVideos(ids) == ids = <<>>

\* mutant: the except clause skips the failed batch only
MoreBatchesAfterFailure(ok, from, ids) == from + BATCH_SIZE < Len(ids)

\* get_video_stats_batch: the for loop goes on to another batch: the break
\* is not taken and range(0, len(video_ids), 50) is not exhausted
MoreBatches(ok, from, ids) == ok /\ from + BATCH_SIZE < Len(ids)

\* get_video_stats_batch: video_ids[i:i+50]
Batch(ids, from) == SubSeq(ids, from + 1, Min2(from + BATCH_SIZE, Len(ids)))

\* isodate.parse_duration(iso_duration).total_seconds()
TotalSeconds(iso) == iso.H * 3600 + iso.M * 60 + iso.S

\* mutant: exactly three minutes is not long-form
is_longform_strict(iso_duration) == TotalSeconds(iso_duration) > LONGFORM_SECONDS

is_longform(iso_duration) == TotalSeconds(iso_duration) >= LONGFORM_SECONDS

\* main(): int(item['statistics'].get(key, 0))
StatOr0(x) == IF Has(x) THEN Val(x) ELSE 0

\* mutant: the duration is not tested
ContributesAnyDuration(item) == Has(item.duration) /\ Has(item.statistics)

\* main(): the item passes the try of the aggregation loop and is appended
\* to the three longform lists
Contributes(item) ==
  /\ Has(item.duration)
  /\ is_longform(Val(item.duration))
  /\ Has(item.statistics)

\* mutant: an item without statistics is averaged as zeros
RECURSIVE LongformLenient(_)
LongformLenient(items) ==
  IF items = <<>> THEN <<>>
  ELSE IF Len(items) = 1
       THEN (IF Has(items[1].duration)
             THEN IF is_longform(Val(items[1].duration))
                  THEN IF Has(items[1].statistics)
                       THEN <<Val(items[1].statistics)>>
                       ELSE <<Stat(Absent, Absent, Absent)>>
                  ELSE <<>>
             ELSE <<>>)
       ELSE LongformLenient(SubSeq(items, 1, Len(items) \div 2))
              \o LongformLenient(SubSeq(items, Len(items) \div 2 + 1, Len(items)))

RECURSIVE Longform(_)
Longform(items) ==
  IF items = <<>> THEN <<>>
  ELSE IF Len(items) = 1
       THEN (IF Contributes(items[1]) THEN <<Val(items[1].statistics)>> ELSE <<>>)
       ELSE Longform(SubSeq(items, 1, Len(items) \div 2))
              \o Longform(SubSeq(items, Len(items) \div 2 + 1, Len(items)))

Column(stats, key) == [k \in 1..Len(stats) |-> StatOr0(stats[k][key])]

\* mutant: the mean is rounded to the nearest integer
AverageRounded(xs) ==
  IF xs = <<>> THEN 0 ELSE (2 * Sum(xs) + Len(xs)) \div (2 * Len(xs))

\* main(): int(sum(xs) / len(xs)) if xs else 0
Average(xs) == IF xs = <<>> THEN 0 ELSE Sum(xs) \div Len(xs)

\* mutant: only the views average is written
AggregateViewsOnly(video_stats_list) ==
  [LGVPV90 |-> Average(Column(Longform(video_stats_list), "viewCount"))]

\* main(): steps 5 to 7, the fields_to_update computed from video_stats_list
Aggregate(video_stats_list) ==
  Fields(Average(Column(Longform(video_stats_list), "viewCount")),
         Average(Column(Longform(video_stats_list), "likeCount")),
         Average(Column(Longform(video_stats_list), "commentCount")))

-----------------------------------------------------------------------------
(* The steps of main() *)

Init ==
  /\ env \in Worlds
  /\ configOk \in BOOLEAN
  /\ pc = "main"
  /\ records = <<>>
  /\ idx = 1
  /\ error_count = 0
  /\ updated_count = 0
  /\ video_ids = <<>>
  /\ stats_data = <<>>
  /\ i = 0
  /\ fields = Absent
  /\ store = <<>>
  /\ hist = EmptyHist
  /\ fetchSeen = <<>>
  /\ ytFailures = 0
  /\ updateCalls = 0
  /\ lastUpdate = "none"

\* mutant: the except clauses leave the counter alone
CountErrorNever(ok) == error_count

\* the except clauses of the three YouTube functions: error_count += 1
CountError(ok) == IF ok THEN error_count ELSE error_count + 1

\* mutant: only a successful update is counted
UpdatedCountOnSuccess(ok) == IF ok THEN updated_count + 1 ELSE updated_count

\* main(): updated_count += 1 follows the update call, whatever its outcome
UpdatedCount(ok) == updated_count + 1

\* mutant: a failed update is charged to the error budget
ErrorsAfterUpdateCharged(ok) == IF ok THEN error_count ELSE error_count + 1

\* update_airtable_record: its except clause only prints
ErrorsAfterUpdate(ok) == error_count

\* main(): update_airtable_record(record['id'], f) is the next call
BeginUpdate(f) ==
  /\ fields' = Some(f)
  /\ pc' = "update"

\* main(): missing environment variables
ConfigError ==
  /\ pc = "main"
  /\ ~configOk
  /\ pc' = "done"
  /\ UNCHANGED <<env, configOk, records, idx, error_count, updated_count,
                 video_ids, stats_data, i, fields, store, hist, fetchSeen,
                 ytFailures, updateCalls, lastUpdate>>

\* get_airtable_records: one pass of the while loop; when the loop ends,
\* main() tests `if not records` and enters the for loop
FetchPage ==
  /\ pc \in {"main", "fetch"}
  /\ configOk
  /\ \E resp \in PageResponses(env.recShapes, Len(fetchSeen) + 1, env.maxRecPages) :
       LET got == IF resp.ok
                  THEN records \o [k \in 1..Len(resp.items) |->
                                    Rec(Len(records) + k, resp.items[k])]
                  ELSE records
           more == MorePages(resp)
       IN /\ fetchSeen' = Append(fetchSeen, resp)
          /\ records' = got
          /\ pc' = IF more THEN "fetch" ELSE IF got = <<>> THEN "done" ELSE "loop"
          /\ store' = IF more THEN store ELSE Rep(Absent, Len(got))
  /\ UNCHANGED <<env, configOk, idx, error_count, updated_count, video_ids,
                 stats_data, i, fields, hist, ytFailures, updateCalls,
                 lastUpdate>>

\* main(): the for loop has run out of records
Finish ==
  /\ pc = "loop"
  /\ idx > Len(records)
  /\ pc' = "done"
  /\ UNCHANGED <<env, configOk, records, idx, error_count, updated_count,
                 video_ids, stats_data, i, fields, store, hist, fetchSeen,
                 ytFailures, updateCalls, lastUpdate>>

\* main(): `if error_count >= ERROR_LIMIT: break`
Halt ==
  /\ pc = "loop"
  /\ idx <= Len(records)
  /\ BudgetExhausted
  /\ pc' = "done"
  /\ UNCHANGED <<env, configOk, records, idx, error_count, updated_count,
                 video_ids, stats_data, i, fields, store, hist, fetchSeen,
                 ytFailures, updateCalls, lastUpdate>>

\* main(): `if not channel_id: continue`
SkipRecord ==
  /\ pc = "loop"
  /\ idx <= Len(records)
  /\ ~BudgetExhausted
  /\ NoChannelId(records[idx])
  /\ idx' = idx + 1
  /\ lastUpdate' = "none"
  /\ UNCHANGED <<env, configOk, pc, records, error_count, updated_count,
                 video_ids, stats_data, i, fields, store, hist, fetchSeen,
                 ytFailures, updateCalls>>

\* main() starts a record: get_uploads_playlist_id(channel_id) and the
\* test `if not playlist_id`
ResolveChannel ==
  /\ pc = "loop"
  /\ idx <= Len(records)
  /\ ~BudgetExhausted
  /\ ~NoChannelId(records[idx])
  /\ \E r \in {"failed", "not_found", "found"} :
       /\ hist' = [EmptyHist EXCEPT !.resolve = r]
       /\ error_count' = CountError(r # "failed")
       /\ ytFailures' = IF r = "failed" THEN ytFailures + 1 ELSE ytFailures
       /\ IF NoPlaylist(r)
          THEN BeginUpdate(ZeroFields)
          ELSE pc' = "recent" /\ fields' = fields
  /\ lastUpdate' = "none"
  /\ UNCHANGED <<env, configOk, records, idx, updated_count, video_ids,
                 stats_data, i, store, fetchSeen, updateCalls>>

\* get_recent_video_ids: one pass of the while loop; when the loop ends,
\* main() tests `if not video_ids`
RecentPage ==
  /\ pc = "recent"
  /\ \E resp \in PageResponses(env.pages, Len(hist.pages) + 1, MaxPages) :
       LET ids == IF resp.ok
                  THEN video_ids \o PageIds(resp.items, Len(hist.pages) + 1)
                  ELSE video_ids
           more == ContinuePaging(resp)
       IN /\ hist' = [hist EXCEPT !.pages = Append(@, resp)]
          /\ error_count' = CountError(resp.ok)
          /\ ytFailures' = IF resp.ok THEN ytFailures ELSE ytFailures + 1
          /\ video_ids' = ids
          /\ IF more THEN pc' = "recent" /\ fields' = fields
             ELSE IF NoRecentVideos(ids) THEN BeginUpdate(ZeroFields)
             ELSE pc' = "stats" /\ fields' = fields
  /\ UNCHANGED <<env, configOk, records, idx, updated_count, stats_data, i,
                 store, fetchSeen, updateCalls, lastUpdate>>

\* answers of the videos endpoint to one batch
StatsResponses ==
  {[ok |-> FALSE, cycle |-> <<>>]} \cup {[ok |-> TRUE, cycle |-> c] : c \in env.cycles}

\* get_video_stats_batch: one pass of the for loop; when the loop ends,
\* main() aggregates the result
StatsBatch ==
  /\ pc = "stats"
  /\ \E resp \in StatsResponses :
       LET batch == Batch(video_ids, i)
           data == IF resp.ok
                   THEN stats_data \o StatsAnswer(resp.cycle, batch)
                   ELSE stats_data
           more == MoreBatches(resp.ok, i, video_ids)
       IN /\ hist' = [hist EXCEPT !.batches =
                         Append(@, [ids |-> batch, ok |-> resp.ok, cycle |-> resp.cycle])]
          /\ error_count' = CountError(resp.ok)
          /\ ytFailures' = IF resp.ok THEN ytFailures ELSE ytFailures + 1
          /\ stats_data' = data
          /\ IF more THEN pc' = "stats" /\ i' = i + BATCH_SIZE /\ fields' = fields
             ELSE BeginUpdate(Aggregate(data)) /\ i' = i
  /\ UNCHANGED <<env, configOk, records, idx, updated_count, video_ids, store,
                 fetchSeen, updateCalls, lastUpdate>>

\* update_airtable_record(record['id'], fields_to_update), then
\* updated_count += 1 and the next pass of the for loop
UpdateRecord ==
  /\ pc = "update"
  /\ \E ok \in BOOLEAN :
       /\ store' = IF ok THEN [store EXCEPT ![records[idx].id] = fields] ELSE store
       /\ lastUpdate' = IF ok THEN "ok" ELSE "failed"
       /\ updated_count' = UpdatedCount(ok)
       /\ error_count' = ErrorsAfterUpdate(ok)
  /\ updateCalls' = updateCalls + 1
  /\ idx' = idx + 1
  /\ pc' = "loop"
  /\ hist' = EmptyHist
  /\ video_ids' = <<>>
  /\ stats_data' = <<>>
  /\ i' = 0
  /\ fields' = Absent
  /\ UNCHANGED <<env, configOk, records, fetchSeen, ytFailures>>

Next ==
  \/ ConfigError
  \/ FetchPage
  \/ Finish
  \/ Halt
  \/ SkipRecord
  \/ ResolveChannel
  \/ RecentPage
  \/ StatsBatch
  \/ UpdateRecord

Spec == Init /\ [][Next]_vars

-----------------------------------------------------------------------------
(* Properties *)

\* transport failures among the requests issued for the current record
HistFailures ==
  (IF hist.resolve = "failed" THEN 1 ELSE 0)
  + Cardinality({k \in 1..Len(hist.pages) : ~hist.pages[k].ok})
  + Cardinality({k \in 1..Len(hist.batches) : ~hist.batches[k].ok})

\* main() has left the for loop by its break
Halted == pc = "done" /\ idx <= Len(records)

\* a record is being processed
InRecord == pc \in {"recent", "stats", "update"}

C1_Started ==
  /\ InRecord => error_count - HistFailures < ERROR_LIMIT
  /\ \A j \in 1..Len(store) : j > idx => store[j] = Absent
  /\ Halted => /\ error_count >= ERROR_LIMIT
               /\ hist = EmptyHist
               /\ store[idx] = Absent

C1_HaltStep ==
  (pc = "loop" /\ error_count >= ERROR_LIMIT)
    => (pc' = "done" /\ UNCHANGED <<idx, store, hist, updateCalls, ytFailures,
                                     updated_count, error_count>>)

\* C1: once the error counter has reached ERROR_LIMIT at the head of the for
\* loop, main() leaves the loop: the record at idx and the later ones get no
\* channel, playlist, stats or update call, and the store is left as it is.
\* A record is only ever in progress when the counter was below the limit
\* at its start.
C1_ErrorBudgetHalt == []C1_Started /\ [][C1_HaltStep]_vars

C1_Witness ==
  /\ Halted
  /\ error_count >= ERROR_LIMIT
  /\ \E j \in 1..(idx - 1) : Has(store[j])

\* C2: the error counter equals the number of failed requests to the three
\* YouTube endpoints; failed record-store requests, channels not found,
\* empty results and items with missing keys do not move it.
C2_ErrorCountIsFailures == error_count = ytFailures

C2_Witness ==
  /\ \E k \in 1..Len(fetchSeen) : ~fetchSeen[k].ok
  /\ pc = "update"
  /\ error_count = 2
  /\ video_ids # <<>>

C3_FailedUpdateStep ==
  (pc = "update" /\ lastUpdate' = "failed")
    => /\ error_count' = error_count
       /\ updated_count' = updated_count + 1
       /\ pc' = "loop"
       /\ idx' = idx + 1

C3_LoopGoesOn ==
  (pc = "loop" /\ lastUpdate = "failed" /\ idx <= Len(records)
     /\ error_count < ERROR_LIMIT)
    => (ENABLED (SkipRecord \/ ResolveChannel)) /\ ~ENABLED Halt

\* C3: a failed update call leaves the error counter unchanged, is counted
\* in updated_count, and the for loop goes on to the next record when the
\* budget allows.
C3_FailedUpdate == [][C3_FailedUpdateStep]_vars /\ []C3_LoopGoesOn

C3_Witness ==
  /\ pc = "loop"
  /\ lastUpdate = "failed"
  /\ idx <= Len(records)
  /\ ~NoChannelId(records[idx])
  /\ updated_count = 1
  /\ error_count = 1

\* C4: in every state, and so when main() reports it, updated_count is the
\* number of update calls issued so far, failed ones included; records that
\* got no update call are not counted.
C4_UpdatedCountIsCalls ==
  /\ updated_count = updateCalls
  /\ updated_count <= Len(records)

C4_Witness ==
  /\ pc = "done"
  /\ lastUpdate = "failed"
  /\ updated_count >= 1
  /\ updated_count < Len(records)

\* the video details the stats requests of the current record returned
ReturnedDetails ==
  Flatten([k \in 1..Len(hist.batches) |->
             IF hist.batches[k].ok
             THEN StatsAnswer(hist.batches[k].cycle, hist.batches[k].ids)
             ELSE <<>>])

\* a long-form item with statistics
Qualifying(d) ==
  /\ Has(d.duration)
  /\ Has(d.statistics)
  /\ 3600 * Val(d.duration).H + 60 * Val(d.duration).M + Val(d.duration).S >= 180

QualifyingSet == SelectSeq(ReturnedDetails, Qualifying)

Metric(d, key) ==
  IF Has(Val(d.statistics)[key]) THEN Val(Val(d.statistics)[key]) ELSE 0

\* floor(sum / count) of a metric over the items q, 0 when there is none
Mean(q, key) ==
  IF q = <<>> THEN 0
  ELSE Sum([k \in 1..Len(q) |-> Metric(q[k], key)]) \div Len(q)

ExpectedFields ==
  LET q == QualifyingSet
  IN [LGVPV90 |-> Mean(q, "viewCount"), LGLPV90 |-> Mean(q, "likeCount"),
      LGCPV90 |-> Mean(q, "commentCount")]

\* C5: every update call carries the three fields together, and their
\* values are the per-metric means of the record's qualifying items (0, 0, 0
\* when there is none); what the store holds for a record is such a triple.
C5_AllThreeFields ==
  /\ pc = "update" =>
       /\ Has(fields)
       /\ DOMAIN Val(fields) = FieldNames
       /\ Val(fields) = ExpectedFields
  /\ \A j \in 1..Len(store) :
       Has(store[j]) => DOMAIN Val(store[j]) = FieldNames

C5_Witness ==
  /\ pc = "update"
  /\ Len(QualifyingSet) = 2
  /\ Len(ReturnedDetails) = 5
  /\ fields = Some(Fields(51, 5, 1))

\* the record takes one of the two short-circuit paths
ShortCircuit == hist.resolve \in {"failed", "not_found"} \/ video_ids = <<>>

C6_Paths ==
  /\ (pc = "update" /\ ShortCircuit) =>
       /\ fields = Some(ZeroFields)
       /\ hist.batches = <<>>
       /\ hist.resolve # "found" => hist.pages = <<>>
  /\ pc = "stats" => video_ids # <<>>
  /\ pc \in {"recent", "stats"} => hist.resolve = "found"

C6_UpdateStep ==
  (pc = "update" /\ ShortCircuit)
    => /\ updated_count' = updated_count + 1
       /\ updateCalls' = updateCalls + 1
       /\ hist' = EmptyHist
       /\ store' = store \/ store' = [store EXCEPT ![idx] = Some(ZeroFields)]

\* C6: when the channel has no playlist, or the recency filter returns no
\* identifier, the next call for the record is one update call with 0, 0, 0,
\* it raises updated_count by one, and no stats call (nor, without a
\* playlist, a playlist call) is issued for the record.
C6_ShortCircuit == []C6_Paths /\ [][C6_UpdateStep]_vars

C6_Witness ==
  /\ pc = "update"
  /\ hist.resolve = "found"
  /\ video_ids = <<>>
  /\ Len(hist.pages) = 2
  /\ \A k \in 1..2 : hist.pages[k].ok

\* an item whose publish time is at or after the cutoff
PublishedSinceCutoff(item) ==
  /\ Has(item.videoPublishedAt)
  /\ Val(item.videoPublishedAt) >= Now - NINETY_DAYS

\* the identifiers of the qualifying items of page n, in page order
QualifyingIds(n, items) ==
  SelectSeq([k \in 1..Len(items) |-> <<n, k>>],
            LAMBDA id : PublishedSinceCutoff(items[id[2]]))

\* the qualifying identifiers of the first n pages fetched for the record
IdsOfPages(n) ==
  Flatten([j \in 1..n |->
             IF hist.pages[j].ok
             THEN QualifyingIds(j, hist.pages[j].items)
             ELSE <<>>])

\* a page with items, none of which qualifies
NoneQualifies(p) ==
  /\ p.ok
  /\ p.items # <<>>
  /\ \A k \in 1..Len(p.items) : ~PublishedSinceCutoff(p.items[k])

\* get_recent_video_ids has returned to main()
Returned == hist.resolve = "found" /\ pc \in {"stats", "update"}

\* C7: a page with items of which none qualifies is the last page
\* get_recent_video_ids requests, and the function returns exactly the
\* qualifying identifiers of the pages before it.
C7_EarlyStop ==
  \A k \in 1..Len(hist.pages) :
    NoneQualifies(hist.pages[k]) =>
      /\ k = Len(hist.pages)
      /\ Returned
      /\ video_ids = IdsOfPages(k - 1)

\* pages [5 qualifying][3 items, 0 qualifying], a third page of 10 qualifying
\* items being on offer: the first 5 identifiers are returned
C7_Witness ==
  /\ Rep(NewItem, 10) \in env.pages
  /\ Len(hist.pages) = 2
  /\ hist.pages[1] = [ok |-> TRUE, items |-> Rep(NewItem, 5), next |-> TRUE]
  /\ hist.pages[2] = [ok |-> TRUE, items |-> <<OldItem, NoDateItem, OldItem>>,
                      next |-> TRUE]
  /\ pc = "stats"
  /\ video_ids = [k \in 1..5 |-> <<1, k>>]

\* C8: an empty page does not end the pagination when it carries a
\* continuation token: the next page is requested and its qualifying items
\* are collected; without a token the empty page is the last one.
C8_EmptyPage ==
  /\ \A k \in 1..Len(hist.pages) :
       (hist.pages[k].ok /\ hist.pages[k].items = <<>>) =>
         IF hist.pages[k].next
         THEN k < Len(hist.pages) \/ (pc = "recent" /\ ENABLED RecentPage)
         ELSE k = Len(hist.pages) /\ Returned
  /\ hist.resolve = "found" => video_ids = IdsOfPages(Len(hist.pages))

C8_Witness ==
  /\ Len(hist.pages) = 2
  /\ hist.pages[1] = [ok |-> TRUE, items |-> <<>>, next |-> TRUE]
  /\ hist.pages[2].ok
  /\ video_ids = [k \in 1..5 |-> <<2, k>>]

C9_FailedPage ==
  \A k \in 1..Len(hist.pages) :
    ~hist.pages[k].ok =>
      /\ k = Len(hist.pages)
      /\ Returned
      /\ video_ids = IdsOfPages(k - 1)

C9_PageStep ==
  (pc = "recent" /\ Len(hist'.pages) = Len(hist.pages) + 1) =>
    IF hist'.pages[Len(hist'.pages)].ok
    THEN error_count' = error_count
    ELSE /\ error_count' = error_count + 1
         /\ video_ids' = video_ids
         /\ pc' # "recent"

\* C9: a failed page request is the last request of the call, the call
\* returns exactly the qualifying identifiers of the pages before it, and the
\* error counter rises by one at the failure and at no other page.
C9_PageFailure == []C9_FailedPage /\ [][C9_PageStep]_vars

C9_Witness ==
  /\ Len(hist.pages) = 3
  /\ hist.pages[1].ok
  /\ hist.pages[2].ok
  /\ ~hist.pages[3].ok
  /\ pc = "stats"
  /\ Len(video_ids) = 15
  /\ error_count = 1

\* the k-th consecutive slice of at most 50 identifiers
Slice(k) ==
  SubSeq(video_ids, 50 * (k - 1) + 1,
         IF 50 * k < Len(video_ids) THEN 50 * k ELSE Len(video_ids))

\* the details the first n stats requests returned
DetailsOfBatches(n) ==
  Flatten([k \in 1..n |->
             IF hist.batches[k].ok
             THEN StatsAnswer(hist.batches[k].cycle, hist.batches[k].ids)
             ELSE <<>>])

C10_Batches ==
  /\ \A k \in 1..Len(hist.batches) :
       /\ hist.batches[k].ids = Slice(k)
       /\ Len(hist.batches[k].ids) \in 1..50
       /\ ~hist.batches[k].ok =>
            /\ k = Len(hist.batches)
            /\ pc = "update"
            /\ stats_data = DetailsOfBatches(k - 1)
  /\ (pc = "update" /\ hist.batches # <<>>
         /\ \A k \in 1..Len(hist.batches) : hist.batches[k].ok) =>
       /\ Flatten([k \in 1..Len(hist.batches) |-> hist.batches[k].ids]) = video_ids
       /\ stats_data = DetailsOfBatches(Len(hist.batches))

C10_BatchStep ==
  (pc = "stats" /\ Len(hist'.batches) = Len(hist.batches) + 1) =>
    IF hist'.batches[Len(hist'.batches)].ok
    THEN error_count' = error_count
    ELSE /\ error_count' = error_count + 1
         /\ stats_data' = stats_data
         /\ pc' = "update"

\* C10: the stats requests carry consecutive slices of at most 50
\* identifiers in input order; a failed batch is the last one requested, the
\* result is the details of the batches before it, and the error counter
\* rises by one at the failure and at no other batch.
C10_BatchFailure == []C10_Batches /\ [][C10_BatchStep]_vars

C10_Witness ==
  /\ Len(video_ids) = 105
  /\ Len(hist.batches) = 2
  /\ hist.batches[1].ok
  /\ ~hist.batches[2].ok
  /\ Len(hist.batches[2].ids) = 50
  /\ Len(stats_data) = 50
  /\ pc = "update"

\* the metrics and the fields that carry their means
MetricFields ==
  {<<"viewCount", "LGVPV90">>, <<"likeCount", "LGLPV90">>,
   <<"commentCount", "LGCPV90">>}

\* a is floor(sum / count) of the values xs, and lies between their minimum
\* and their maximum
FloorMeanWithin(a, xs) ==
  /\ a * Len(xs) <= Sum(xs)
  /\ Sum(xs) < (a + 1) * Len(xs)
  /\ \E k \in 1..Len(xs) : xs[k] <= a
  /\ \E k \in 1..Len(xs) : a <= xs[k]

\* C11: when the record has qualifying items, each field of the update call
\* is floor(sum / count) of its metric over them and lies between the
\* smallest and the largest value of that metric.
C11_FloorMean ==
  (pc = "update" /\ QualifyingSet # <<>>) =>
    LET q == QualifyingSet
    IN \A m \in MetricFields :
         FloorMeanWithin(Val(fields)[m[2]],
                         [k \in 1..Len(q) |-> Metric(q[k], m[1])])

C11_Witness ==
  /\ pc = "update"
  /\ Len(QualifyingSet) = 5
  /\ fields = Some(Fields(43, 4, 1))

\* C12: without a qualifying item the three fields of the update call are 0,
\* whether no recent item was found, or the stats requests returned nothing,
\* or none of the returned items is long-form with statistics.
C12_EmptyIsZero ==
  (pc = "update" /\ QualifyingSet = <<>>) => fields = Some(ZeroFields)

\* recent items whose details were returned, none of them long-form
C12_Witness ==
  /\ pc = "update"
  /\ video_ids # <<>>
  /\ ReturnedDetails # <<>>
  /\ QualifyingSet = <<>>
  /\ fields = Some(ZeroFields)

\* the returned details that have a duration and statistics
Complete == SelectSeq(ReturnedDetails, LAMBDA d : Has(d.duration) /\ Has(d.statistics))

Seconds(d) == 3600 * Val(d.duration).H + 60 * Val(d.duration).M + Val(d.duration).S

\* C13: among the returned items with duration and statistics, exactly those
\* of at least 180 seconds are averaged: the fields written are the means
\* over them, whatever the shorter items hold.
C13_LongformOnly ==
  pc = "update" =>
    LET long == SelectSeq(Complete, LAMBDA d : Seconds(d) > 179)
    IN /\ Len(Longform(stats_data)) = Len(long)
       /\ \A m \in MetricFields :
            Val(fields)[m[2]] = Mean(long, m[1])

\* one video of exactly 180 seconds (100, 10, 2) and one of 179 seconds
C13_Witness ==
  /\ pc = "update"
  /\ Len(ReturnedDetails) = 2
  /\ Seconds(ReturnedDetails[1]) = 180
  /\ Seconds(ReturnedDetails[2]) = 179
  /\ Val(ReturnedDetails[2].statistics) = Stat(Some(7), Some(5), Some(3))
  /\ fields = Some(Fields(100, 10, 2))

\* C14: the identifiers collected for a record are exactly those of the
\* items, of the pages read, published at or after now - 90 days: an item
\* published at that instant is collected, one published a second earlier
\* is not; the instant is the same for every record.
C14_Recency ==
  hist.resolve = "found" =>
    \A j \in 1..Len(hist.pages) :
      hist.pages[j].ok =>
        \A k \in 1..Len(hist.pages[j].items) :
          (\E n \in 1..Len(video_ids) : video_ids[n] = <<j, k>>)
            <=> PublishedSinceCutoff(hist.pages[j].items[k])

\* the second record processed: an item published at the cutoff instant is
\* collected, the item published one second earlier is not
C14_Witness ==
  /\ updateCalls = 1
  /\ pc = "update"
  /\ Len(hist.pages) = 2
  /\ hist.pages[1].ok /\ hist.pages[1].items = <<AtItem>>
  /\ hist.pages[2].ok /\ hist.pages[2].items = <<OldItem>>
  /\ video_ids = << <<1, 1>> >>

\* the returned details that lack the duration or the statistics
Incomplete ==
  SelectSeq(ReturnedDetails, LAMBDA d : ~Has(d.duration) \/ ~Has(d.statistics))

\* the fields are the means over the long-form items among the complete ones
C15_RestAggregated ==
  (pc = "update" /\ Incomplete # <<>>) =>
    /\ Len(Longform(stats_data)) = Len(SelectSeq(Complete, Qualifying))
    /\ \A m \in MetricFields :
         Val(fields)[m[2]] = Mean(SelectSeq(Complete, Qualifying), m[1])

\* the step that aggregates adds to the error counter only the failure of
\* the batch request it made
C15_AggregateStep ==
  (pc = "stats" /\ pc' = "update") =>
    error_count' = error_count
                     + (IF hist'.batches[Len(hist'.batches)].ok THEN 0 ELSE 1)

\* C15: returned items without duration or without statistics are left out
\* of the means, the remaining items of the record are averaged, and the
\* aggregation adds nothing to the error counter.
C15_IncompleteSkipped == []C15_RestAggregated /\ [][C15_AggregateStep]_vars

\* five details, one without duration, one without statistics; the two
\* long-form ones (100, 10, 2) and (3, 1, 1) are averaged
C15_Witness ==
  /\ pc = "update"
  /\ Len(ReturnedDetails) = 5
  /\ Len(Incomplete) = 2
  /\ \E k \in 1..2 : ~Has(Incomplete[k].duration)
  /\ \E k \in 1..2 : ~Has(Incomplete[k].statistics)
  /\ fields = Some(Fields(51, 5, 1))
  /\ error_count = 0

\* the records of the pages read so far, in order
RecordsOfPages ==
  LET items == Flatten([j \in 1..Len(fetchSeen) |->
                          IF fetchSeen[j].ok THEN fetchSeen[j].items ELSE <<>>])
  IN [k \in 1..Len(items) |-> Rec(k, items[k])]

\* get_airtable_records has returned
Fetched == configOk /\ pc \notin {"main", "fetch"}

\* C16: every page request but the last was answered with a continuation
\* token; the function returns after a page without token or a failed
\* request, which is then the last request, and returns the records of the
\* pages read, in order.
C16_Pagination ==
  /\ \A j \in 1..(Len(fetchSeen) - 1) : fetchSeen[j].ok /\ fetchSeen[j].next
  /\ records = RecordsOfPages
  /\ pc = "fetch" =>
       fetchSeen[Len(fetchSeen)].ok /\ fetchSeen[Len(fetchSeen)].next
  /\ Fetched =>
       /\ fetchSeen # <<>>
       /\ ~fetchSeen[Len(fetchSeen)].ok \/ ~fetchSeen[Len(fetchSeen)].next

\* the second page request failed: the records of the first page are returned
C16_Witness ==
  /\ pc = "loop"
  /\ Len(fetchSeen) = 2
  /\ fetchSeen[1].ok /\ fetchSeen[1].next
  /\ ~fetchSeen[2].ok
  /\ records # <<>>
  /\ Len(records) = Len(fetchSeen[1].items)

\* what has been called for the record in progress, by program position
C17_Path ==
  /\ pc \in {"main", "fetch", "loop", "done"} => hist = EmptyHist
  /\ InRecord => hist.resolve # "none"
  /\ hist.pages # <<>> => hist.resolve = "found"
  /\ pc = "recent" => hist.resolve = "found" /\ hist.batches = <<>>
  /\ pc = "stats" => hist.pages # <<>> /\ video_ids # <<>>
  /\ hist.batches # <<>> => hist.pages # <<>> /\ video_ids # <<>>
  /\ pc = "update" => Has(fields)

\* the order of the calls: resolution opens a record, pages precede batches,
\* the update call closes the record and only then does the driver move on
C17_CallStep ==
  /\ hist'.resolve \notin {"none", hist.resolve} => pc = "loop" /\ hist = EmptyHist
  /\ Len(hist'.pages) > Len(hist.pages) =>
       hist.resolve = "found" /\ hist.batches = <<>>
  /\ Len(hist'.batches) > Len(hist.batches) => hist.pages # <<>> /\ video_ids # <<>>
  /\ (InRecord /\ pc # "update") =>
       idx' = idx /\ updateCalls' = updateCalls /\ hist' # EmptyHist
  /\ updateCalls' # updateCalls =>
       /\ pc = "update"
       /\ updateCalls' = updateCalls + 1
       /\ hist' = EmptyHist
       /\ idx' = idx + 1
       /\ pc' = "loop"
  /\ pc = "update" => updateCalls' # updateCalls \/ UNCHANGED vars

\* C17: for every record the calls are, in this order, the channel
\* resolution, playlist pages only after a playlist was found, stats batches
\* only after an identifier was collected, and one update call that ends
\* the record; nothing is called for the next record before that.
C17_PerRecordOrder == []C17_Path /\ [][C17_CallStep]_vars

\* the second record, about to be updated after all three kinds of call
C17_Witness ==
  /\ pc = "update"
  /\ idx = 2
  /\ updateCalls = 1
  /\ hist.resolve = "found"
  /\ hist.pages # <<>>
  /\ hist.batches # <<>>

\* C18: the record in progress was started below the limit and has added at
\* most 2 to the error counter, nothing beyond a failed resolution; the
\* counter never exceeds the limit plus 1.
C18_ErrorBound ==
  /\ error_count <= ERROR_LIMIT + 1
  /\ HistFailures <= 2
  /\ hist.resolve = "failed" => HistFailures = 1
  /\ InRecord => error_count - HistFailures < ERROR_LIMIT

\* the counter has passed the limit
C18_Witness ==
  /\ error_count = ERROR_LIMIT + 1
  /\ HistFailures = 2
  /\ pc = "update"

\* the record the loop is at has no channel id
C19_AtBlank ==
  /\ pc = "loop"
  /\ idx <= Len(records)
  /\ error_count < ERROR_LIMIT
  /\ records[idx].channel \in {Absent, Some("")}

C19_SkipStep ==
  C19_AtBlank =>
    \/ /\ idx' = idx + 1
       /\ pc' = "loop"
       /\ UNCHANGED <<hist, error_count, updated_count, updateCalls,
                       ytFailures, store, fields, video_ids, stats_data>>
    \/ UNCHANGED vars

\* C19: a record without channel id, or with an empty one, that the loop
\* reaches is passed over: no request is made for it, the counters and the
\* store are left as they are, and the loop is at the next record.
C19_BlankSkipped ==
  /\ [](InRecord => records[idx].channel \notin {Absent, Some("")})
  /\ [][C19_SkipStep]_vars

\* the record after a skipped one is processed; nothing was counted for
\* the skipped one
C19_Witness ==
  /\ pc = "update"
  /\ idx = 2
  /\ records[1].channel = Some("")
  /\ updateCalls = 0
  /\ updated_count = 0

\* the resolution, or the first playlist page, failed
C20_Failed ==
  \/ hist.resolve = "failed"
  \/ IF hist.pages # <<>> THEN ~hist.pages[1].ok ELSE FALSE

\* the records before position n that carry a channel id
WithChannel(n) ==
  {j \in 1..n : j <= Len(records) /\ records[j].channel \notin {Absent, Some("")}}

C20_ZerosPending ==
  /\ C20_Failed =>
       /\ pc = "update"
       /\ fields = Some(ZeroFields)
       /\ error_count >= 1
  /\ updateCalls = Cardinality(WithChannel(idx - 1))
  /\ updated_count = updateCalls

C20_UpdateStep ==
  (C20_Failed /\ pc = "update") =>
    \/ /\ updateCalls' = updateCalls + 1
       /\ updated_count' = updated_count + 1
       /\ lastUpdate' = "ok" => store'[records[idx].id] = Some(ZeroFields)
    \/ UNCHANGED vars

\* C20: after a failed resolution or a failed first playlist page the
\* update call with 0, 0, 0 is the next call and is counted; each record
\* with a channel id that the loop has passed has had one update call.
C20_FailureWritesZeros == []C20_ZerosPending /\ [][C20_UpdateStep]_vars

\* the second record's resolution failed: zeros are about to be written
C20_Witness ==
  /\ hist.resolve = "failed"
  /\ pc = "update"
  /\ fields = Some(ZeroFields)
  /\ updateCalls = 1
  /\ error_count = 1

=============================================================================
